---- MODULE Spec2Model ----
(***************************************************************************)
(* Model of Positioning/include/genivi/gnss.h: the enumerations and the    *)
(* three records TGNSSTime, TGNSSSatelliteDetail and TGNSSPosition, with   *)
(* the validity-bit protocol the header documents: a validityBits word is  *)
(* the bitwise OR of the record's validity constants and must be           *)
(* mask-tested before a field is used.                                     *)
(***************************************************************************)
EXTENDS Integers, Sequences, FiniteSets, TLC

(***************************************************************************)
(* Bit operations of C on non-negative integers.                           *)
(***************************************************************************)
RECURSIVE BitAnd(_, _)
BitAnd(a, b) ==
    IF a = 0 \/ b = 0 THEN 0
    ELSE (a % 2) * (b % 2) + 2 * BitAnd(a \div 2, b \div 2)

RECURSIVE BitOr(_, _)
BitOr(a, b) ==
    IF a = 0 THEN b
    ELSE IF b = 0 THEN a
    ELSE (IF a % 2 = 1 \/ b % 2 = 1 THEN 1 ELSE 0) + 2 * BitOr(a \div 2, b \div 2)

RECURSIVE PopCount(_)
PopCount(a) == IF a = 0 THEN 0 ELSE (a % 2) + PopCount(a \div 2)

RECURSIVE Pow2(_)
Pow2(n) == IF n = 0 THEN 1 ELSE 2 * Pow2(n - 1)

\* The low w bits of v (two's complement for a negative v).
RECURSIVE Truncate(_, _)
Truncate(v, w) ==
    IF w = 0 \/ v = 0 THEN 0
    ELSE (v % 2) + 2 * Truncate(v \div 2, w - 1)

(***************************************************************************)
(* EGNSSFixStatus: no initialisers, so the values count from 0.            *)
(***************************************************************************)
GNSS_FIX_STATUS_NO == 0
GNSS_FIX_STATUS_TIME == 1
GNSS_FIX_STATUS_2D == 2
\* An initialiser that restarts the count below GNSS_FIX_STATUS_2D.
FixStatus3DBelow2D == GNSS_FIX_STATUS_2D - 1
GNSS_FIX_STATUS_3D == 3

EGNSSFixStatus ==
    << [name |-> "GNSS_FIX_STATUS_NO",   value |-> GNSS_FIX_STATUS_NO],
       [name |-> "GNSS_FIX_STATUS_TIME", value |-> GNSS_FIX_STATUS_TIME],
       [name |-> "GNSS_FIX_STATUS_2D",   value |-> GNSS_FIX_STATUS_2D],
       [name |-> "GNSS_FIX_STATUS_3D",   value |-> GNSS_FIX_STATUS_3D] >>

(***************************************************************************)
(* EGNSSFixType (values in decimal; the header writes them in hex).        *)
(***************************************************************************)
GNSS_FIX_TYPE_SINGLE_FREQUENCY == 1
GNSS_FIX_TYPE_MULTI_FREQUENCY == 2
GNSS_FIX_TYPE_MULTI_CONSTELLATION == 4
GNSS_FIX_TYPE_PPP == 16
GNSS_FIX_TYPE_INTEGRITY_CHECKED == 32
GNSS_FIX_TYPE_SBAS == 4096
GNSS_FIX_TYPE_DGNSS == 8192
GNSS_FIX_TYPE_RTK_FIXED == 16384
\* The value of the line above repeated.
FixTypeRtkFloatRepeated == GNSS_FIX_TYPE_RTK_FIXED
GNSS_FIX_TYPE_RTK_FLOAT == 32768
GNSS_FIX_TYPE_SSR == 65536
GNSS_FIX_TYPE_ESTIMATED == 1048576
GNSS_FIX_TYPE_DEAD_RECKONING == 2097152
GNSS_FIX_TYPE_MANUAL == 268435456
GNSS_FIX_TYPE_SIMULATOR_MODE == 536870912

EGNSSFixType ==
    << [name |-> "GNSS_FIX_TYPE_SINGLE_FREQUENCY",    value |-> GNSS_FIX_TYPE_SINGLE_FREQUENCY],
       [name |-> "GNSS_FIX_TYPE_MULTI_FREQUENCY",     value |-> GNSS_FIX_TYPE_MULTI_FREQUENCY],
       [name |-> "GNSS_FIX_TYPE_MULTI_CONSTELLATION", value |-> GNSS_FIX_TYPE_MULTI_CONSTELLATION],
       [name |-> "GNSS_FIX_TYPE_PPP",                 value |-> GNSS_FIX_TYPE_PPP],
       [name |-> "GNSS_FIX_TYPE_INTEGRITY_CHECKED",   value |-> GNSS_FIX_TYPE_INTEGRITY_CHECKED],
       [name |-> "GNSS_FIX_TYPE_SBAS",                value |-> GNSS_FIX_TYPE_SBAS],
       [name |-> "GNSS_FIX_TYPE_DGNSS",               value |-> GNSS_FIX_TYPE_DGNSS],
       [name |-> "GNSS_FIX_TYPE_RTK_FIXED",           value |-> GNSS_FIX_TYPE_RTK_FIXED],
       [name |-> "GNSS_FIX_TYPE_RTK_FLOAT",           value |-> GNSS_FIX_TYPE_RTK_FLOAT],
       [name |-> "GNSS_FIX_TYPE_SSR",                 value |-> GNSS_FIX_TYPE_SSR],
       [name |-> "GNSS_FIX_TYPE_ESTIMATED",           value |-> GNSS_FIX_TYPE_ESTIMATED],
       [name |-> "GNSS_FIX_TYPE_DEAD_RECKONING",      value |-> GNSS_FIX_TYPE_DEAD_RECKONING],
       [name |-> "GNSS_FIX_TYPE_MANUAL",              value |-> GNSS_FIX_TYPE_MANUAL],
       [name |-> "GNSS_FIX_TYPE_SIMULATOR_MODE",      value |-> GNSS_FIX_TYPE_SIMULATOR_MODE] >>

(***************************************************************************)
(* EGNSSTimeScale                                                          *)
(***************************************************************************)
GNSS_TIME_SCALE_UTC == 0
GNSS_TIME_SCALE_GPS == 1

EGNSSTimeScale ==
    << [name |-> "GNSS_TIME_SCALE_UTC", value |-> GNSS_TIME_SCALE_UTC],
       [name |-> "GNSS_TIME_SCALE_GPS", value |-> GNSS_TIME_SCALE_GPS] >>

(***************************************************************************)
(* EGNSSTimeValidityBits: each constant with the TGNSSTime fields its      *)
(* comment names.                                                          *)
(***************************************************************************)
GNSS_TIME_TIME_VALID == 1
GNSS_TIME_DATE_VALID == 2
\* The value of the line above repeated.
TimeScaleValidRepeated == GNSS_TIME_DATE_VALID
GNSS_TIME_SCALE_VALID == 4
GNSS_TIME_LEAPSEC_VALID == 8

EGNSSTimeValidityBits ==
    << [name |-> "GNSS_TIME_TIME_VALID",    value |-> GNSS_TIME_TIME_VALID,
        fields |-> {"hour", "minute", "second", "ms"}],
       [name |-> "GNSS_TIME_DATE_VALID",    value |-> GNSS_TIME_DATE_VALID,
        fields |-> {"year", "month", "day"}],
       [name |-> "GNSS_TIME_SCALE_VALID",   value |-> GNSS_TIME_SCALE_VALID,
        fields |-> {"scale"}],
       [name |-> "GNSS_TIME_LEAPSEC_VALID", value |-> GNSS_TIME_LEAPSEC_VALID,
        fields |-> {"leapSeconds"}] >>

(***************************************************************************)
(* EGNSSSystem                                                             *)
(***************************************************************************)
GNSS_SYSTEM_GPS == 1
GNSS_SYSTEM_GLONASS == 2
GNSS_SYSTEM_GALILEO == 4
GNSS_SYSTEM_BEIDOU == 8
GNSS_SYSTEM_GPS_L2 == 16
GNSS_SYSTEM_GPS_L5 == 32
GNSS_SYSTEM_GLONASS_L2 == 64
GNSS_SYSTEM_BEIDOU_B2 == 128
\* The next bit after GNSS_SYSTEM_BEIDOU_B2 in place of 0x00010000.
SystemSbasWaasNextLowBit == 2 * GNSS_SYSTEM_BEIDOU_B2
GNSS_SYSTEM_SBAS_WAAS == 65536
GNSS_SYSTEM_SBAS_EGNOS == 131072
GNSS_SYSTEM_SBAS_MSAS == 262144
GNSS_SYSTEM_SBAS_QZSS_SAIF == 524288
GNSS_SYSTEM_SBAS_SDCM == 1048576
GNSS_SYSTEM_SBAS_GAGAN == 2097152

\* sbas: the constant's name is GNSS_SYSTEM_SBAS_*.
EGNSSSystem ==
    << [name |-> "GNSS_SYSTEM_GPS",            value |-> GNSS_SYSTEM_GPS,            sbas |-> FALSE],
       [name |-> "GNSS_SYSTEM_GLONASS",        value |-> GNSS_SYSTEM_GLONASS,        sbas |-> FALSE],
       [name |-> "GNSS_SYSTEM_GALILEO",        value |-> GNSS_SYSTEM_GALILEO,        sbas |-> FALSE],
       [name |-> "GNSS_SYSTEM_BEIDOU",         value |-> GNSS_SYSTEM_BEIDOU,         sbas |-> FALSE],
       [name |-> "GNSS_SYSTEM_GPS_L2",         value |-> GNSS_SYSTEM_GPS_L2,         sbas |-> FALSE],
       [name |-> "GNSS_SYSTEM_GPS_L5",         value |-> GNSS_SYSTEM_GPS_L5,         sbas |-> FALSE],
       [name |-> "GNSS_SYSTEM_GLONASS_L2",     value |-> GNSS_SYSTEM_GLONASS_L2,     sbas |-> FALSE],
       [name |-> "GNSS_SYSTEM_BEIDOU_B2",      value |-> GNSS_SYSTEM_BEIDOU_B2,      sbas |-> FALSE],
       [name |-> "GNSS_SYSTEM_SBAS_WAAS",      value |-> GNSS_SYSTEM_SBAS_WAAS,      sbas |-> TRUE],
       [name |-> "GNSS_SYSTEM_SBAS_EGNOS",     value |-> GNSS_SYSTEM_SBAS_EGNOS,     sbas |-> TRUE],
       [name |-> "GNSS_SYSTEM_SBAS_MSAS",      value |-> GNSS_SYSTEM_SBAS_MSAS,      sbas |-> TRUE],
       [name |-> "GNSS_SYSTEM_SBAS_QZSS_SAIF", value |-> GNSS_SYSTEM_SBAS_QZSS_SAIF, sbas |-> TRUE],
       [name |-> "GNSS_SYSTEM_SBAS_SDCM",      value |-> GNSS_SYSTEM_SBAS_SDCM,      sbas |-> TRUE],
       [name |-> "GNSS_SYSTEM_SBAS_GAGAN",     value |-> GNSS_SYSTEM_SBAS_GAGAN,     sbas |-> TRUE] >>

\* "Numbers >= 0x00010000 are used to identify SBAS".
SBAS_BASE == 65536

(***************************************************************************)
(* EGNSSSatelliteFlag                                                      *)
(***************************************************************************)
GNSS_SATELLITE_USED == 1
GNSS_SATELLITE_EPHEMERIS_AVAILABLE == 2

EGNSSSatelliteFlag ==
    << [name |-> "GNSS_SATELLITE_USED",                value |-> GNSS_SATELLITE_USED],
       [name |-> "GNSS_SATELLITE_EPHEMERIS_AVAILABLE", value |-> GNSS_SATELLITE_EPHEMERIS_AVAILABLE] >>

(***************************************************************************)
(* EGNSSSatelliteDetailValidityBits: each constant with the                *)
(* TGNSSSatelliteDetail field its comment names (two constants name flags  *)
(* of the one field statusBits).                                           *)
(***************************************************************************)
GNSS_SATELLITE_SYSTEM_VALID == 1
GNSS_SATELLITE_ID_VALID == 2
GNSS_SATELLITE_AZIMUTH_VALID == 4
GNSS_SATELLITE_ELEVATION_VALID == 8
GNSS_SATELLITE_CNO_VALID == 16
GNSS_SATELLITE_USED_VALID == 32
GNSS_SATELLITE_EPHEMERIS_AVAILABLE_VALID == 64
GNSS_SATELLITE_RESIDUAL_VALID == 128

EGNSSSatelliteDetailValidityBits ==
    << [name |-> "GNSS_SATELLITE_SYSTEM_VALID",    value |-> GNSS_SATELLITE_SYSTEM_VALID,
        fields |-> {"system"}],
       [name |-> "GNSS_SATELLITE_ID_VALID",        value |-> GNSS_SATELLITE_ID_VALID,
        fields |-> {"satelliteId"}],
       [name |-> "GNSS_SATELLITE_AZIMUTH_VALID",   value |-> GNSS_SATELLITE_AZIMUTH_VALID,
        fields |-> {"azimuth"}],
       [name |-> "GNSS_SATELLITE_ELEVATION_VALID", value |-> GNSS_SATELLITE_ELEVATION_VALID,
        fields |-> {"elevation"}],
       [name |-> "GNSS_SATELLITE_CNO_VALID",       value |-> GNSS_SATELLITE_CNO_VALID,
        fields |-> {"CNo"}],
       [name |-> "GNSS_SATELLITE_USED_VALID",      value |-> GNSS_SATELLITE_USED_VALID,
        fields |-> {"statusBits"}],
       [name |-> "GNSS_SATELLITE_EPHEMERIS_AVAILABLE_VALID",
        value |-> GNSS_SATELLITE_EPHEMERIS_AVAILABLE_VALID,
        fields |-> {"statusBits"}],
       [name |-> "GNSS_SATELLITE_RESIDUAL_VALID",  value |-> GNSS_SATELLITE_RESIDUAL_VALID,
        fields |-> {"posResidual"}] >>

(***************************************************************************)
(* EGNSSPositionValidityBits: each constant with the TGNSSPosition field   *)
(* its comment names.                                                      *)
(***************************************************************************)
GNSS_POSITION_LATITUDE_VALID == 1
GNSS_POSITION_LONGITUDE_VALID == 2
\* 0x00000003 written for 0x00000004: the constant overlaps latitude's and
\* longitude's.
AltitudeMSLValidOverlapping == GNSS_POSITION_LATITUDE_VALID + GNSS_POSITION_LONGITUDE_VALID
GNSS_POSITION_ALTITUDEMSL_VALID == 4
GNSS_POSITION_ALTITUDEELL_VALID == 8
GNSS_POSITION_HSPEED_VALID == 16
GNSS_POSITION_VSPEED_VALID == 32
GNSS_POSITION_HEADING_VALID == 64
GNSS_POSITION_PDOP_VALID == 128
GNSS_POSITION_HDOP_VALID == 256
GNSS_POSITION_VDOP_VALID == 512
GNSS_POSITION_USAT_VALID == 1024
GNSS_POSITION_TSAT_VALID == 2048
GNSS_POSITION_VSAT_VALID == 4096
GNSS_POSITION_SHPOS_VALID == 8192
GNSS_POSITION_SALT_VALID == 16384
GNSS_POSITION_SHSPEED_VALID == 32768
GNSS_POSITION_SVSPEED_VALID == 65536
GNSS_POSITION_SHEADING_VALID == 131072
GNSS_POSITION_STAT_VALID == 262144
GNSS_POSITION_TYPE_VALID == 524288
GNSS_POSITION_ASYS_VALID == 1048576
GNSS_POSITION_USYS_VALID == 2097152
GNSS_POSITION_CORRAGE_VALID == 4194304

EGNSSPositionValidityBits ==
    << [name |-> "GNSS_POSITION_LATITUDE_VALID",    value |-> GNSS_POSITION_LATITUDE_VALID,
        fields |-> {"latitude"}],
       [name |-> "GNSS_POSITION_LONGITUDE_VALID",   value |-> GNSS_POSITION_LONGITUDE_VALID,
        fields |-> {"longitude"}],
       [name |-> "GNSS_POSITION_ALTITUDEMSL_VALID", value |-> GNSS_POSITION_ALTITUDEMSL_VALID,
        fields |-> {"altitudeMSL"}],
       [name |-> "GNSS_POSITION_ALTITUDEELL_VALID", value |-> GNSS_POSITION_ALTITUDEELL_VALID,
        fields |-> {"altitudeEll"}],
       [name |-> "GNSS_POSITION_HSPEED_VALID",      value |-> GNSS_POSITION_HSPEED_VALID,
        fields |-> {"hSpeed"}],
       [name |-> "GNSS_POSITION_VSPEED_VALID",      value |-> GNSS_POSITION_VSPEED_VALID,
        fields |-> {"vSpeed"}],
       [name |-> "GNSS_POSITION_HEADING_VALID",     value |-> GNSS_POSITION_HEADING_VALID,
        fields |-> {"heading"}],
       [name |-> "GNSS_POSITION_PDOP_VALID",        value |-> GNSS_POSITION_PDOP_VALID,
        fields |-> {"pdop"}],
       [name |-> "GNSS_POSITION_HDOP_VALID",        value |-> GNSS_POSITION_HDOP_VALID,
        fields |-> {"hdop"}],
       [name |-> "GNSS_POSITION_VDOP_VALID",        value |-> GNSS_POSITION_VDOP_VALID,
        fields |-> {"vdop"}],
       [name |-> "GNSS_POSITION_USAT_VALID",        value |-> GNSS_POSITION_USAT_VALID,
        fields |-> {"usedSatellites"}],
       [name |-> "GNSS_POSITION_TSAT_VALID",        value |-> GNSS_POSITION_TSAT_VALID,
        fields |-> {"trackedSatellites"}],
       [name |-> "GNSS_POSITION_VSAT_VALID",        value |-> GNSS_POSITION_VSAT_VALID,
        fields |-> {"visibleSatellites"}],
       [name |-> "GNSS_POSITION_SHPOS_VALID",       value |-> GNSS_POSITION_SHPOS_VALID,
        fields |-> {"sigmaHPosition"}],
       [name |-> "GNSS_POSITION_SALT_VALID",        value |-> GNSS_POSITION_SALT_VALID,
        fields |-> {"sigmaAltitude"}],
       [name |-> "GNSS_POSITION_SHSPEED_VALID",     value |-> GNSS_POSITION_SHSPEED_VALID,
        fields |-> {"sigmaHSpeed"}],
       [name |-> "GNSS_POSITION_SVSPEED_VALID",     value |-> GNSS_POSITION_SVSPEED_VALID,
        fields |-> {"sigmaVSpeed"}],
       [name |-> "GNSS_POSITION_SHEADING_VALID",    value |-> GNSS_POSITION_SHEADING_VALID,
        fields |-> {"sigmaHeading"}],
       [name |-> "GNSS_POSITION_STAT_VALID",        value |-> GNSS_POSITION_STAT_VALID,
        fields |-> {"fixStatus"}],
       [name |-> "GNSS_POSITION_TYPE_VALID",        value |-> GNSS_POSITION_TYPE_VALID,
        fields |-> {"fixTypeBits"}],
       [name |-> "GNSS_POSITION_ASYS_VALID",        value |-> GNSS_POSITION_ASYS_VALID,
        fields |-> {"activatedSystems"}],
       [name |-> "GNSS_POSITION_USYS_VALID",        value |-> GNSS_POSITION_USYS_VALID,
        fields |-> {"usedSystems"}],
       [name |-> "GNSS_POSITION_CORRAGE_VALID",     value |-> GNSS_POSITION_CORRAGE_VALID,
        fields |-> {"correctionAge"}] >>

(***************************************************************************)
(* The three records: the fields in declaration order with their declared  *)
(* types.                                                                  *)
(***************************************************************************)
TGNSSTime ==
    << [name |-> "timestamp",    type |-> "uint64_t"],
       [name |-> "year",         type |-> "uint16_t"],
       [name |-> "month",        type |-> "uint8_t"],
       [name |-> "day",          type |-> "uint8_t"],
       [name |-> "hour",         type |-> "uint8_t"],
       [name |-> "minute",       type |-> "uint8_t"],
       [name |-> "second",       type |-> "uint8_t"],
       [name |-> "ms",           type |-> "uint16_t"],
       [name |-> "scale",        type |-> "EGNSSTimeScale"],
       [name |-> "leapSeconds",  type |-> "int8_t"],
       [name |-> "validityBits", type |-> "uint32_t"] >>

TGNSSSatelliteDetail ==
    << [name |-> "timestamp",    type |-> "uint64_t"],
       [name |-> "system",       type |-> "EGNSSSystem"],
       [name |-> "satelliteId",  type |-> "uint16_t"],
       [name |-> "azimuth",      type |-> "uint16_t"],
       [name |-> "elevation",    type |-> "uint16_t"],
       [name |-> "CNo",          type |-> "uint16_t"],
       [name |-> "statusBits",   type |-> "uint32_t"],
       [name |-> "posResidual",  type |-> "int16_t"],
       [name |-> "validityBits", type |-> "uint32_t"] >>

TGNSSPosition ==
    << [name |-> "timestamp",         type |-> "uint64_t"],
       [name |-> "latitude",          type |-> "double"],
       [name |-> "longitude",         type |-> "double"],
       [name |-> "altitudeMSL",       type |-> "float"],
       [name |-> "altitudeEll",       type |-> "float"],
       [name |-> "hSpeed",            type |-> "float"],
       [name |-> "vSpeed",            type |-> "float"],
       [name |-> "heading",           type |-> "float"],
       [name |-> "pdop",              type |-> "float"],
       [name |-> "hdop",              type |-> "float"],
       [name |-> "vdop",              type |-> "float"],
       [name |-> "usedSatellites",    type |-> "uint16_t"],
       [name |-> "trackedSatellites", type |-> "uint16_t"],
       [name |-> "visibleSatellites", type |-> "uint16_t"],
       [name |-> "sigmaHPosition",    type |-> "float"],
       [name |-> "sigmaAltitude",     type |-> "float"],
       [name |-> "sigmaHSpeed",       type |-> "float"],
       [name |-> "sigmaVSpeed",       type |-> "float"],
       [name |-> "sigmaHeading",      type |-> "float"],
       [name |-> "fixStatus",         type |-> "EGNSSFixStatus"],
       [name |-> "fixTypeBits",       type |-> "uint32_t"],
       [name |-> "activatedSystems",  type |-> "uint32_t"],
       [name |-> "usedSystems",       type |-> "uint32_t"],
       [name |-> "correctionAge",     type |-> "uint16_t"],
       [name |-> "validityBits",      type |-> "uint32_t"] >>

(***************************************************************************)
(* Declared types.  An unsigned integer field keeps the low bits of what   *)
(* is assigned to it, a signed one the two's complement value.  An enum    *)
(* field holds the enumerator's int value.  The values the model assigns   *)
(* to float and double fields are small whole numbers, which both formats  *)
(* represent exactly, so the assignment keeps them.                        *)
(***************************************************************************)
Kinds == {"TGNSSTime", "TGNSSSatelliteDetail", "TGNSSPosition"}

Struct(kind) ==
    CASE kind = "TGNSSTime"            -> TGNSSTime
      [] kind = "TGNSSSatelliteDetail" -> TGNSSSatelliteDetail
      [] kind = "TGNSSPosition"        -> TGNSSPosition

\* The enumeration the validityBits comment of each record refers to.
ValidityEnum(kind) ==
    CASE kind = "TGNSSTime"            -> EGNSSTimeValidityBits
      [] kind = "TGNSSSatelliteDetail" -> EGNSSSatelliteDetailValidityBits
      [] kind = "TGNSSPosition"        -> EGNSSPositionValidityBits

AllFields(kind) == { Struct(kind)[i].name : i \in DOMAIN Struct(kind) }

\* The fields other than validityBits itself, per record type.
DataFieldsOf == [ kind \in Kinds |-> AllFields(kind) \ {"validityBits"} ]
DataFields(kind) == DataFieldsOf[kind]

\* The declared type of each field, per record type.
FieldTypes ==
    [ kind \in Kinds |->
        [ f \in AllFields(kind) |->
            LET i == CHOOSE j \in DOMAIN Struct(kind) : Struct(kind)[j].name = f
            IN  Struct(kind)[i].type ] ]
\* heading declared like TGNSSSatelliteDetail.azimuth, an unsigned 16 bit count
\* of degrees.
FieldTypeHeadingAsAzimuth(kind, f) ==
    IF f = "heading" THEN "uint16_t" ELSE FieldTypes[kind][f]
\* ms declared like its neighbours hour, minute and second, as a uint8_t.
FieldTypeMsAsSecond(kind, f) ==
    IF f = "ms" THEN "uint8_t" ELSE FieldTypes[kind][f]
FieldType(kind, f) == FieldTypes[kind][f]

Unsigned == {"uint8_t", "uint16_t", "uint32_t", "uint64_t"}
Signed == {"int8_t", "int16_t"}

Width(type) ==
    CASE type = "uint8_t"  -> 8
      [] type = "int8_t"   -> 8
      [] type = "uint16_t" -> 16
      [] type = "int16_t"  -> 16
      [] type = "uint32_t" -> 32
      [] type = "uint64_t" -> 64

\* The value a field of the type holds after `field = v`.
Store(type, v) ==
    IF type \in Unsigned THEN Truncate(v, Width(type))
    ELSE IF type \in Signed THEN
        LET u == Truncate(v, Width(type))
        IN  IF u >= Pow2(Width(type) - 1) THEN u - Pow2(Width(type)) ELSE u
    ELSE v

\* The validity constants (by position in the enumeration) whose comment
\* names field f.
ValidityTable ==
    [ kind \in Kinds |->
        [ f \in DataFieldsOf[kind] |->
            { i \in DOMAIN ValidityEnum(kind) : f \in ValidityEnum(kind)[i].fields } ] ]
\* GNSS_POSITION_ALTITUDEMSL_VALID taken as the bit of both altitudes.
ValidityOfAltitudesTogether(kind, f) ==
    { i \in DOMAIN ValidityEnum(kind) :
        \/ f \in ValidityEnum(kind)[i].fields
        \/ (f = "altitudeEll" /\ "altitudeMSL" \in ValidityEnum(kind)[i].fields) }
ValidityOf(kind, f) == ValidityTable[kind][f]

\* The mask test a consumer makes: validityBits & constant.
IsValid(validityBits, constant) == BitAnd(validityBits, constant) # 0

(***************************************************************************)
(* State.  rec is the record instance in hand: its type, its validityBits  *)
(* word and its other fields.  A field holds <<v>> once v was assigned to  *)
(* it and Indeterminate before.  marked and written record what the        *)
(* producer did (the names of the validity constants it ORed in, the value *)
(* it passed to each assignment); consumed is what the consumer got from   *)
(* its validity-checked reads.                                             *)
(***************************************************************************)
VARIABLES rec, marked, written, phase, consumed, target, flags

vars == << rec, marked, written, phase, consumed, target, flags >>

Indeterminate == << >>
NoRead == << >>
NoTarget == [kind |-> "none", field |-> "none"]

\* Bounds of the model.
MaxPopulated == 3
MaxSecond == 61

\* The values a producer assigns in the model, boundary values of the
\* documented ranges and their neighbours.
InputValues(kind, f) ==
    CASE f = "timestamp"    -> {1000}
      [] f = "year"         -> {2015}
      [] f = "month"        -> {0, 11, 12}
      [] f = "day"          -> {1, 31}
      [] f = "hour"         -> {23}
      [] f = "minute"       -> {59}
      [] f = "second"       -> (0 .. MaxSecond) \cup {255}
      [] f = "ms"           -> {999}
      [] f = "scale"        -> {GNSS_TIME_SCALE_UTC, GNSS_TIME_SCALE_GPS}
      [] f = "leapSeconds"  -> {16, 17}
      [] f = "system"       -> {GNSS_SYSTEM_GPS, GNSS_SYSTEM_SBAS_GAGAN}
      [] f = "satelliteId"  -> {1}
      [] f = "azimuth"      -> {0, 359}
      [] f = "elevation"    -> {90}
      [] f = "CNo"          -> {0, 99}
      [] f = "statusBits"   -> {0, GNSS_SATELLITE_USED, GNSS_SATELLITE_EPHEMERIS_AVAILABLE,
                                GNSS_SATELLITE_USED + GNSS_SATELLITE_EPHEMERIS_AVAILABLE}
      [] f = "posResidual"  -> {-999, 999}
      [] f = "heading"      -> {0, 359, 360, -1}
      [] f = "fixStatus"    -> { EGNSSFixStatus[i].value : i \in DOMAIN EGNSSFixStatus }
      [] f = "fixTypeBits"  -> {0, GNSS_FIX_TYPE_MULTI_CONSTELLATION + GNSS_FIX_TYPE_RTK_FIXED}
      [] f = "activatedSystems" -> {GNSS_SYSTEM_GPS + GNSS_SYSTEM_GLONASS}
      [] f = "usedSystems"  -> {GNSS_SYSTEM_GPS}
      [] f = "vSpeed"       -> {-1}
      [] OTHER              -> {1}

\* The ways to give each field of fs one of its input values.
RECURSIVE Assignments(_, _)
Assignments(kind, fs) ==
    IF fs = {} THEN { << >> }
    ELSE LET f == CHOOSE x \in fs : TRUE
         IN  { (f :> v) @@ g : v \in InputValues(kind, f), g \in Assignments(kind, fs \ {f}) }

\* A record as declared and not yet filled: the producer starts from an
\* empty validity mask and stamps the acquisition time.
NewRecord(kind, ts) ==
    [ kind |-> kind,
      validityBits |-> 0,
      data |-> [ f \in DataFields(kind) |->
                   IF f = "timestamp" THEN << Store(FieldType(kind, f), ts) >>
                   ELSE Indeterminate ] ]

NothingWritten(kind, ts) ==
    [ f \in DataFields(kind) |-> IF f = "timestamp" THEN << ts >> ELSE Indeterminate ]

Init ==
    /\ \E kind \in Kinds : \E ts \in InputValues(kind, "timestamp") :
          /\ rec = NewRecord(kind, ts)
          /\ written = NothingWritten(kind, ts)
    /\ marked = {}
    /\ phase = "filling"
    /\ consumed = NoRead
    /\ target = NoTarget
    /\ flags = {}

(***************************************************************************)
(* Producer: assigns the fields a validity constant names and ORs the      *)
(* constant into validityBits.                                             *)
(***************************************************************************)
Populate(i, vals) ==
    LET enum == ValidityEnum(rec.kind)
        c    == enum[i]
    IN  /\ phase = "filling"
        /\ target = NoTarget
        /\ c.name \notin marked
        /\ Cardinality(marked) < MaxPopulated
        \* statusBits is one word under two validity constants: it is assigned once
        /\ \A f \in c.fields : written[f] # Indeterminate => written[f] = << vals[f] >>
        /\ rec' = [ rec EXCEPT
                      !.data = [ f \in DOMAIN rec.data |->
                                   IF f \in c.fields
                                   THEN << Store(FieldType(rec.kind, f), vals[f]) >>
                                   ELSE rec.data[f] ],
                      !.validityBits = Store("uint32_t", BitOr(rec.validityBits, c.value)) ]
        /\ written' = [ f \in DOMAIN written |->
                          IF f \in c.fields THEN << vals[f] >> ELSE written[f] ]
        /\ marked' = marked \cup {c.name}
        /\ UNCHANGED << phase, consumed, target, flags >>

(***************************************************************************)
(* Consumer: validityBits "must be checked before usage".  A field is read *)
(* when every validity constant naming it tests set; a field no constant   *)
(* names (timestamp) is read without a test.                               *)
(***************************************************************************)
ReadField(r, f) ==
    IF \A i \in ValidityOf(r.kind, f) :
           IsValid(r.validityBits, ValidityEnum(r.kind)[i].value)
    THEN [ ok |-> TRUE, value |-> r.data[f] ]
    ELSE [ ok |-> FALSE, value |-> Indeterminate ]

Consume ==
    /\ phase = "filling"
    /\ target = NoTarget
    /\ phase' = "consumed"
    /\ consumed' = [ f \in DataFields(rec.kind) |-> ReadField(rec, f) ]
    /\ UNCHANGED << rec, marked, written, target, flags >>

\* The consumed record is dropped and the producer starts the next one.
NextRecord ==
    /\ phase = "consumed"
    /\ \E kind \in Kinds : \E ts \in InputValues(kind, "timestamp") :
          /\ rec' = NewRecord(kind, ts)
          /\ written' = NothingWritten(kind, ts)
    /\ marked' = {}
    /\ phase' = "filling"
    /\ consumed' = NoRead
    /\ UNCHANGED << target, flags >>

Next ==
    \/ \E i \in DOMAIN ValidityEnum(rec.kind) :
          \E vals \in Assignments(rec.kind, ValidityEnum(rec.kind)[i].fields) :
             Populate(i, vals)
    \/ Consume
    \/ NextRecord

Spec == Init /\ [][Next]_vars

(***************************************************************************)
(* Building a flag word.  The header documents fixTypeBits as the bitwise  *)
(* OR of EGNSSFixType values, activatedSystems and usedSystems as the OR   *)
(* of EGNSSSystem values and statusBits as the OR of EGNSSSatelliteFlag    *)
(* values.  target is the word being built, flags the names of the         *)
(* constants ORed into it so far.                                          *)
(***************************************************************************)
FlagWords ==
    { [kind |-> "TGNSSPosition",        field |-> "fixTypeBits"],
      [kind |-> "TGNSSPosition",        field |-> "activatedSystems"],
      [kind |-> "TGNSSPosition",        field |-> "usedSystems"],
      [kind |-> "TGNSSSatelliteDetail", field |-> "statusBits"] }

FlagEnum(f) ==
    CASE f = "fixTypeBits"      -> EGNSSFixType
      [] f = "activatedSystems" -> EGNSSSystem
      [] f = "usedSystems"      -> EGNSSSystem
      [] f = "statusBits"       -> EGNSSSatelliteFlag

\* The constants of an enumeration that mask-test set in a word.
FlagsIn(enum, word) ==
    { enum[i].name : i \in { j \in DOMAIN enum : BitAnd(word, enum[j].value) # 0 } }

InitFlags ==
    /\ \E t \in FlagWords : \E ts \in InputValues(t.kind, "timestamp") :
          /\ target = t
          /\ rec = [ NewRecord(t.kind, ts) EXCEPT !.data[t.field] = << 0 >> ]
          /\ written = [ NothingWritten(t.kind, ts) EXCEPT ![t.field] = << 0 >> ]
    /\ flags = {}
    /\ marked = {}
    /\ phase = "filling"
    /\ consumed = NoRead

\* word |= constant.  The constants are ORed in in declaration order: OR
\* commutes, so every subset of an enumeration is still built, once.
OrFlag(i) ==
    LET enum == FlagEnum(target.field)
        c    == enum[i]
    IN  /\ target # NoTarget
        /\ \A j \in DOMAIN enum : enum[j].name \in flags => j < i
        /\ rec' = [ rec EXCEPT !.data[target.field] =
                      << Store(FieldType(rec.kind, target.field), BitOr(@[1], c.value)) >> ]
        /\ flags' = flags \cup {c.name}
        /\ UNCHANGED << marked, written, phase, consumed, target >>

\* fixStatus kept in the low bits of the fixTypeBits word instead of a
\* field of its own.
SetFixStatusIntoFixTypeBits(s) ==
    /\ target # NoTarget
    /\ target.field = "fixTypeBits"
    /\ written["fixStatus"] # << s >>
    /\ rec' = [ rec EXCEPT !.data["fixTypeBits"] =
                  << Store(FieldType(rec.kind, "fixTypeBits"), BitOr(@[1], s)) >> ]
    /\ written' = [ written EXCEPT !["fixStatus"] = << s >> ]
    /\ UNCHANGED << marked, phase, consumed, target, flags >>

\* fixStatus = s, beside the fixTypeBits word
SetFixStatus(s) ==
    /\ target # NoTarget
    /\ target.field = "fixTypeBits"
    /\ written["fixStatus"] # << s >>
    /\ rec' = [ rec EXCEPT !.data["fixStatus"] =
                  << Store(FieldType(rec.kind, "fixStatus"), s) >> ]
    /\ written' = [ written EXCEPT !["fixStatus"] = << s >> ]
    /\ UNCHANGED << marked, phase, consumed, target, flags >>

NextFlags ==
    \/ \E i \in DOMAIN FlagEnum(target.field) : OrFlag(i)
    \/ \E s \in InputValues("TGNSSPosition", "fixStatus") : SetFixStatus(s)

SpecFlags == InitFlags /\ [][NextFlags]_vars

UniqueBitPositions(enum) ==
    /\ \A i \in DOMAIN enum : PopCount(enum[i].value) = 1
    /\ \A i, j \in DOMAIN enum : i # j => enum[i].value # enum[j].value

\* The fields of a record of the kind that share validity constant i: the
\* fields the constant names, when it names more than one.
SharedUnder(kind, i) ==
    LET fs == ValidityEnum(kind)[i].fields \cap DataFields(kind)
    IN  IF Cardinality(fs) > 1 THEN fs ELSE {}

\* The groups of fields of a record of the kind that share a validity bit.
SharingGroupsOf ==
    [ kind \in Kinds |-> { SharedUnder(kind, i) : i \in DOMAIN ValidityEnum(kind) } \ { {} } ]
SharingGroups(kind) == SharingGroupsOf[kind]

UniqueBitPositionsOf == [ kind \in Kinds |-> UniqueBitPositions(ValidityEnum(kind)) ]

\* C3 as stated: in the record in hand every validity constant has a bit
\* position of its own and no two fields of the record share a validity bit.
NoTwoFieldsShareValidityBit ==
    /\ UniqueBitPositionsOf[rec.kind]
    /\ SharingGroups(rec.kind) = {}

\* C3 amended: every validity constant has a bit position of its own within
\* its enumeration; no two fields of TGNSSSatelliteDetail or TGNSSPosition
\* share a validity bit; in TGNSSTime hour, minute, second and ms share
\* GNSS_TIME_TIME_VALID and year, month and day share GNSS_TIME_DATE_VALID,
\* and these are the only fields that share one.  Fields that share a bit
\* are read or refused together.
ValidityBitsUniqueFieldsGrouped ==
    /\ UniqueBitPositionsOf[rec.kind]
    /\ rec.kind # "TGNSSTime" => SharingGroups(rec.kind) = {}
    /\ rec.kind = "TGNSSTime" =>
          SharingGroups(rec.kind) =
              { {"hour", "minute", "second", "ms"}, {"year", "month", "day"} }
    /\ phase = "consumed" =>
          \A grp \in SharingGroups(rec.kind) :
              \A f, g \in grp : consumed[f].ok <=> consumed[g].ok

\* A consumed TGNSSTime with only GNSS_TIME_TIME_VALID set: hour and minute
\* are both read under the one bit.
TimeGroupConsumed ==
    /\ rec.kind = "TGNSSTime"
    /\ phase = "consumed"
    /\ marked = {"GNSS_TIME_TIME_VALID"}
    /\ consumed["hour"].ok
    /\ consumed["minute"].ok
    /\ ~ consumed["year"].ok

\* Every field of fs has exactly one validity constant of the record type,
\* and every validity constant names exactly one field, a field of fs.
OneToOne(kind, fs) ==
    /\ \A f \in fs : Cardinality(ValidityOf(kind, f)) = 1
    /\ \A i \in DOMAIN ValidityEnum(kind) :
          /\ Cardinality(ValidityEnum(kind)[i].fields) = 1
          /\ ValidityEnum(kind)[i].fields \subseteq fs

PositionOneToOneAllFields == OneToOne("TGNSSPosition", DataFields("TGNSSPosition"))

PositionOneToOneButTimestamp ==
    /\ OneToOne("TGNSSPosition", DataFields("TGNSSPosition") \ {"timestamp"})
    /\ ValidityOf("TGNSSPosition", "timestamp") = {}

\* C5 as stated: the fields of TGNSSPosition other than validityBits and
\* the constants of EGNSSPositionValidityBits correspond one to one.
PositionFieldsOneToOne ==
    rec.kind = "TGNSSPosition" => PositionOneToOneAllFields

\* C5 amended: the fields of TGNSSPosition other than validityBits and
\* timestamp correspond one to one to the constants of
\* EGNSSPositionValidityBits, and each of them is read exactly when its one
\* constant tests set in validityBits; timestamp has no validity constant
\* and is read whatever validityBits holds.
PositionFieldsOneToOneButTimestamp ==
    rec.kind = "TGNSSPosition" =>
        /\ PositionOneToOneButTimestamp
        /\ phase = "consumed" =>
              /\ consumed["timestamp"].ok
              /\ consumed["timestamp"].value = rec.data["timestamp"]
              /\ \A i \in DOMAIN EGNSSPositionValidityBits :
                    \A f \in EGNSSPositionValidityBits[i].fields :
                        consumed[f].ok <=>
                            IsValid(rec.validityBits, EGNSSPositionValidityBits[i].value)

\* A consumed TGNSSPosition with an empty validityBits: timestamp is read,
\* no other field is.
EmptyPositionConsumed ==
    /\ rec.kind = "TGNSSPosition"
    /\ phase = "consumed"
    /\ rec.validityBits = 0
    /\ consumed["timestamp"].ok
    /\ \A f \in DataFields(rec.kind) \ {"timestamp"} : ~ consumed[f].ok

\* C8 as stated: a consumed record never yields a second of 61 or more, nor
\* a heading of 360 or more or below 0.
OutOfRangeRejected ==
    phase = "consumed" =>
        /\ (rec.kind = "TGNSSTime" /\ consumed["second"].ok) =>
              consumed["second"].value[1] \in 0 .. 60
        /\ (rec.kind = "TGNSSPosition" /\ consumed["heading"].ok) =>
              consumed["heading"].value[1] \in 0 .. 359

\* C8 amended: second holds every value 0..60 and month the values 0 and 11,
\* heading holds 0 and values below 360, each as assigned; the header
\* rejects and flags nothing: second holds 61..255, month 12 and heading 360
\* and negative values as assigned too, and the consumer reads them under
\* the field's validity bit like any other value.
BoundaryValuesStoredAsAssigned ==
    \A f \in {"second", "month", "heading"} :
        (f \in DOMAIN written /\ written[f] # Indeterminate) =>
            /\ rec.data[f] = written[f]
            /\ phase = "consumed" =>
                  (consumed[f].ok /\ consumed[f].value = written[f])

\* A second of 61 reaches the consumer as a valid field.
Second61Consumed ==
    /\ rec.kind = "TGNSSTime"
    /\ phase = "consumed"
    /\ written["second"] = << 61 >>
    /\ consumed["second"] = [ok |-> TRUE, value |-> << 61 >>]

\* Every constant of a flag word's enumeration is a power of two and no two
\* constants of the enumeration are equal.
FlagsSingleBitDistinct ==
    [ f \in { t.field : t \in FlagWords } |-> UniqueBitPositions(FlagEnum(f)) ]

\* C4: every constant of EGNSSFixType, EGNSSSystem and EGNSSSatelliteFlag
\* is a power of two, the constants of an enumeration are pairwise
\* distinct, and mask-testing the OR of any subset of an enumeration's
\* constants against each constant yields exactly the subset.
FlagsIndependentlyCombinable ==
    target # NoTarget =>
        /\ FlagsSingleBitDistinct[target.field]
        /\ FlagsIn(FlagEnum(target.field), rec.data[target.field][1]) = flags

\* All fourteen EGNSSFixType constants ORed into fixTypeBits.
AllFixTypesCombined ==
    /\ target.field = "fixTypeBits"
    /\ flags = { EGNSSFixType[i].name : i \in DOMAIN EGNSSFixType }
    /\ PopCount(rec.data["fixTypeBits"][1]) = Len(EGNSSFixType)

\* C9: fixStatus and fixTypeBits are independent: with any of the four
\* EGNSSFixStatus values assigned and any OR of EGNSSFixType constants
\* built, the record holds the status as assigned and the flag word decodes
\* to the constants ORed in, so that records that differ in either differ.
FixStatusIndependentOfFixType ==
    target.field = "fixTypeBits" =>
        /\ rec.data["fixStatus"] = written["fixStatus"]
        /\ FlagsIn(EGNSSFixType, rec.data["fixTypeBits"][1]) = flags

\* fixStatus 3D with GNSS_FIX_TYPE_MULTI_CONSTELLATION | GNSS_FIX_TYPE_RTK_FIXED.
Fix3DMultiConstellationRtkFixed ==
    /\ target.field = "fixTypeBits"
    /\ rec.data["fixStatus"] = << GNSS_FIX_STATUS_3D >>
    /\ rec.data["fixTypeBits"] =
          << GNSS_FIX_TYPE_MULTI_CONSTELLATION + GNSS_FIX_TYPE_RTK_FIXED >>
    /\ flags = {"GNSS_FIX_TYPE_MULTI_CONSTELLATION", "GNSS_FIX_TYPE_RTK_FIXED"}

SBASNames == { EGNSSSystem[i].name : i \in { j \in DOMAIN EGNSSSystem : EGNSSSystem[j].sbas } }

SBASConstantsAtOrAboveBase ==
    \A i \in DOMAIN EGNSSSystem : EGNSSSystem[i].sbas <=> EGNSSSystem[i].value >= SBAS_BASE

SBASRangeReserved ==
    /\ SBASConstantsAtOrAboveBase
    /\ (target.field \in {"activatedSystems", "usedSystems"}) =>
          ( rec.data[target.field][1] >= SBAS_BASE <=> flags \cap SBASNames # {} )

\* C10 as stated: the GNSS_SYSTEM_SBAS_* constants are the EGNSSSystem
\* constants at or above 0x10000, and there are exactly five of them.
SBASRangeFiveSystems ==
    SBASRangeReserved /\ Cardinality(SBASNames) = 5

\* C10 amended: the GNSS_SYSTEM_SBAS_* constants are the EGNSSSystem
\* constants at or above 0x10000, every other constant is below 0x10000 (so
\* a systems word is at or above 0x10000 exactly when it holds an SBAS
\* system), and the enumeration has exactly six SBAS systems: WAAS, EGNOS,
\* MSAS, QZSS-SAIF, SDCM and GAGAN.
SBASRangeSixSystems ==
    /\ SBASRangeReserved
    /\ SBASNames = {"GNSS_SYSTEM_SBAS_WAAS", "GNSS_SYSTEM_SBAS_EGNOS", "GNSS_SYSTEM_SBAS_MSAS",
                    "GNSS_SYSTEM_SBAS_QZSS_SAIF", "GNSS_SYSTEM_SBAS_SDCM", "GNSS_SYSTEM_SBAS_GAGAN"}
    /\ Cardinality(SBASNames) = 6

\* All six SBAS systems ORed into activatedSystems.
SixSBASActivated ==
    /\ target.field = "activatedSystems"
    /\ flags = SBASNames
    /\ PopCount(rec.data["activatedSystems"][1]) = 6

\* The enumerators of EGNSSFixStatus are NO, TIME, 2D and 3D, in this order,
\* with strictly increasing values.
FixStatusStrictlyIncreasing ==
    /\ [ i \in DOMAIN EGNSSFixStatus |-> EGNSSFixStatus[i].name ] =
          << "GNSS_FIX_STATUS_NO", "GNSS_FIX_STATUS_TIME",
             "GNSS_FIX_STATUS_2D", "GNSS_FIX_STATUS_3D" >>
    /\ \A i, j \in DOMAIN EGNSSFixStatus :
          i < j => EGNSSFixStatus[i].value < EGNSSFixStatus[j].value

\* C11: EGNSSFixStatus has exactly the four values NO, TIME, 2D and 3D with
\* strictly increasing numeric codes in this order, and they are mutually
\* exclusive: the fixStatus a TGNSSPosition holds is the code of exactly
\* one of them, and the consumer reads that code.
FixStatusFourOrderedValues ==
    /\ Len(EGNSSFixStatus) = 4
    /\ FixStatusStrictlyIncreasing
    /\ (rec.kind = "TGNSSPosition" /\ rec.data["fixStatus"] # Indeterminate) =>
          /\ Cardinality({ i \in DOMAIN EGNSSFixStatus :
                             << EGNSSFixStatus[i].value >> = rec.data["fixStatus"] }) = 1
          /\ rec.data["fixStatus"] = written["fixStatus"]
          /\ phase = "consumed" => consumed["fixStatus"].value = written["fixStatus"]

\* A consumed TGNSSPosition whose only valid field is a fixStatus of 3D, the
\* greatest code.
FixStatus3DConsumed ==
    /\ rec.kind = "TGNSSPosition"
    /\ phase = "consumed"
    /\ marked = {"GNSS_POSITION_STAT_VALID"}
    /\ consumed["fixStatus"] = [ok |-> TRUE, value |-> << GNSS_FIX_STATUS_3D >>]
    /\ \A i \in DOMAIN EGNSSFixStatus :
          EGNSSFixStatus[i].value <= consumed["fixStatus"].value[1]

(***************************************************************************)
(* The value ranges the field comments document.                           *)
(***************************************************************************)
DocumentedRanges ==
    { [kind |-> "TGNSSTime", field |-> "month",       lo |-> 0,  hi |-> 11],
      [kind |-> "TGNSSTime", field |-> "day",         lo |-> 1,  hi |-> 31],
      [kind |-> "TGNSSTime", field |-> "hour",        lo |-> 0,  hi |-> 23],
      [kind |-> "TGNSSTime", field |-> "minute",      lo |-> 0,  hi |-> 59],
      [kind |-> "TGNSSTime", field |-> "second",      lo |-> 0,  hi |-> 60],
      [kind |-> "TGNSSTime", field |-> "ms",          lo |-> 0,  hi |-> 999],
      [kind |-> "TGNSSTime", field |-> "leapSeconds", lo |-> 16, hi |-> 17],
      [kind |-> "TGNSSSatelliteDetail", field |-> "azimuth",     lo |-> 0,    hi |-> 359],
      [kind |-> "TGNSSSatelliteDetail", field |-> "elevation",   lo |-> 0,    hi |-> 90],
      [kind |-> "TGNSSSatelliteDetail", field |-> "CNo",         lo |-> 0,    hi |-> 99],
      [kind |-> "TGNSSSatelliteDetail", field |-> "posResidual", lo |-> -999, hi |-> 999] }

\* The type C12 names for each field with a documented range.
ClaimedType(f) ==
    CASE f \in {"month", "day", "hour", "minute", "second"} -> "uint8_t"
      [] f \in {"ms", "azimuth", "elevation", "CNo"}         -> "uint16_t"
      [] f = "posResidual"                                   -> "int16_t"
      [] f = "leapSeconds"                                   -> "int8_t"

\* Every value of every documented range is kept by an assignment to the
\* field, which has the type C12 names.
RangesFitDeclaredTypes ==
    \A r \in DocumentedRanges :
        /\ FieldType(r.kind, r.field) = ClaimedType(r.field)
        /\ \A v \in r.lo .. r.hi : Store(FieldType(r.kind, r.field), v) = v

\* The OR of the first n constants of an enumeration.
RECURSIVE OrUpTo(_, _)
OrUpTo(enum, n) == IF n = 0 THEN 0 ELSE BitOr(OrUpTo(enum, n - 1), enum[n].value)

\* The words that hold ORed constants, each with its enumeration.
MaskWords ==
    { [kind |-> t.kind, field |-> t.field, enum |-> FlagEnum(t.field)] : t \in FlagWords }
    \cup { [kind |-> k, field |-> "validityBits", enum |-> ValidityEnum(k)] : k \in Kinds }

\* Every flag word is a uint32_t that keeps each constant of its enumeration
\* and the OR of all of them.
FlagsFitMaskWords ==
    \A w \in MaskWords :
        /\ FieldTypes[w.kind][w.field] = "uint32_t"
        /\ \A i \in DOMAIN w.enum :
              Store(FieldTypes[w.kind][w.field], w.enum[i].value) = w.enum[i].value
        /\ Store(FieldTypes[w.kind][w.field], OrUpTo(w.enum, Len(w.enum)))
              = OrUpTo(w.enum, Len(w.enum))

\* The range documented for field f of the record in hand holds v.
InDocumentedRange(kind, f, v) ==
    \E r \in DocumentedRanges : r.kind = kind /\ r.field = f /\ v \in r.lo .. r.hi

\* C12: every documented value range of a record field fits the field's
\* declared fixed-width type without wrap-around (month, day, hour, minute,
\* second in uint8_t; ms, azimuth, elevation, CNo in uint16_t; posResidual
\* in int16_t; leapSeconds in int8_t), and every flag constant and the OR of
\* all constants of an enumeration fits the uint32_t word that stores it:
\* a field assigned a value of its documented range holds that value, and
\* validityBits holds every constant ORed into it.
DocumentedRangesFitTypes ==
    /\ RangesFitDeclaredTypes
    /\ FlagsFitMaskWords
    /\ \A f \in DOMAIN written :
          (written[f] # Indeterminate /\ InDocumentedRange(rec.kind, f, written[f][1])) =>
              rec.data[f] = written[f]
    /\ \A i \in DOMAIN ValidityEnum(rec.kind) :
          ValidityEnum(rec.kind)[i].name \in marked =>
              BitAnd(rec.validityBits, ValidityEnum(rec.kind)[i].value)
                  = ValidityEnum(rec.kind)[i].value

\* A consumed TGNSSSatelliteDetail holding the ends of two documented
\* ranges: a posResidual of -999 and an azimuth of 359.
RangeEndsConsumed ==
    /\ rec.kind = "TGNSSSatelliteDetail"
    /\ phase = "consumed"
    /\ written["posResidual"] = << -999 >>
    /\ written["azimuth"] = << 359 >>
    /\ consumed["posResidual"] = [ok |-> TRUE, value |-> << -999 >>]
    /\ consumed["azimuth"] = [ok |-> TRUE, value |-> << 359 >>]

====
